---- MODULE Spec2Model ----
\* A model of the RAG orchestration layer of dashboard-api:
\*   optimized_query_engine.py  (OptimizedQueryEngine: cache, fallback, orchestration)
\*   gemini_client_manager.py   (GeminiClientManager: client lifecycle, retries)
\*   rag_manager.py             (RAGManager: index lifecycle, query, reset)
\*   event_loop_manager.py      (FlaskAsyncManager: the background event loop)
\*   performance_monitor.py     (PerformanceMonitor: counters)
\*   rag_config.py              (MistralRateLimiter, mistral_llm_func)
\*
\* These specifications share the module:
\*   Spec      request threads running query_with_optimizations concurrently
\*             (SpecSeq: the same, one call at a time; SpecQueries: one
\*             thread, given every kind of query);
\*   SpecMgr   coroutines of the pipeline interleaving on the one event loop,
\*             sharing the two managers and their locks;
\*   SpecLoop  request threads inside FlaskAsyncManager.run_async;
\*   SpecRate  coroutines in mistral_llm_func sharing the MistralRateLimiter
\*             (rag_config.py);
\*   SpecKeys  one request thread, given queries and modes whose cache keys
\*             coincide;
\*   SpecAdmin one request thread beside the handler of POST /api/cache/clear
\*             (app.py).
EXTENDS Integers, Sequences, FiniteSets, TLC

\* ------------------------------------------------------------------ bounds
\* Request threads of the web layer (Flask runs one thread per request).
NumThreads == 2
\* Coroutines that may be in flight on the event loop at once.
NumCoroutines == 2
\* The clock runs 0..MaxTime; 0..MaxClock while the request threads are watched.
MaxTime == 2
MaxClock == 1
\* FlaskAsyncLoop threads ever started, the first included.
MaxLoopThreads == 3
\* Calls of query_with_optimizations started in one behaviour.
MaxCalls == 3
\* Mistral API calls started in one behaviour, and the clock while the rate
\* limiter is watched.
MaxMistralCalls == 4
MaxRateTime == 4
\* The cache capacity, 100 in the code (optimized_query_engine.py:207), scaled.
CacheCapacity == 2
\* cache_ttl, 3600 s in the code (optimized_query_engine.py:29), scaled.
cache_ttl == 1
\* _test_interval / _health_check_interval, 300 s in the code, scaled.
test_interval == 1
health_check_interval == 1
\* max_query_length, 2000 characters in the code
\* (optimized_query_engine.py:24), scaled; every query that is not meant to
\* be too long is shorter.
max_query_length == 32

\* ------------------------------------------------------- program constants
max_retries == 3
\* mistral_rate_limiter = MistralRateLimiter(requests_per_second=1.0)
requests_per_second == 1

Threads == 1..NumThreads
CoIds == 1..NumCoroutines
Times == 0..MaxTime

\* Python's None where a string is expected.
None == "<None>"
Truthy(s) == s # None /\ s # ""

\* ------------------------------------------------------------ string helpers
\* str.startswith
StartsWith(s, p) == Len(s) >= Len(p) /\ SubSeq(s, 1, Len(p)) = p

\* `sub in s`
Contains(s, sub) ==
    \E i \in 1..(Len(s) - Len(sub) + 1) : SubSeq(s, i, i + Len(sub) - 1) = sub

IsSpace(ch) == ch \in {" ", "\t", "\n"}

RECURSIVE LStrip(_)
LStrip(s) ==
    IF Len(s) > 0 /\ IsSpace(SubSeq(s, 1, 1)) THEN LStrip(SubSeq(s, 2, Len(s))) ELSE s

RECURSIVE RStrip(_)
RStrip(s) ==
    IF Len(s) > 0 /\ IsSpace(SubSeq(s, Len(s), Len(s)))
    THEN RStrip(SubSeq(s, 1, Len(s) - 1)) ELSE s

\* str.strip
Strip(s) == RStrip(LStrip(s))

LowerChar(ch) ==
    CASE ch = "A" -> "a" [] ch = "B" -> "b" [] ch = "C" -> "c" [] ch = "D" -> "d"
      [] ch = "E" -> "e" [] ch = "F" -> "f" [] ch = "G" -> "g" [] ch = "H" -> "h"
      [] ch = "I" -> "i" [] ch = "J" -> "j" [] ch = "K" -> "k" [] ch = "L" -> "l"
      [] ch = "M" -> "m" [] ch = "N" -> "n" [] ch = "O" -> "o" [] ch = "P" -> "p"
      [] ch = "Q" -> "q" [] ch = "R" -> "r" [] ch = "S" -> "s" [] ch = "T" -> "t"
      [] ch = "U" -> "u" [] ch = "V" -> "v" [] ch = "W" -> "w" [] ch = "X" -> "x"
      [] ch = "Y" -> "y" [] ch = "Z" -> "z" [] OTHER -> ch

\* str.lower: every character lowered, the two halves one after the other
RECURSIVE Lower(_)
Lower(s) ==
    IF Len(s) = 0 THEN s
    ELSE IF Len(s) = 1 THEN LowerChar(s)
    ELSE LET mid == Len(s) \div 2
         IN  Lower(SubSeq(s, 1, mid)) \o Lower(SubSeq(s, mid + 1, Len(s)))

\* ------------------------------------------------------------ the strings
\* gemini_client_manager.py
EmptyResponseMsg == "I apologize, but I couldn't generate a response. Please try again."
RequestTimedOutMsg == "The request timed out. Please try again with a simpler question."
TechnicalDifficultiesMsg == "I'm experiencing technical difficulties. Please try again."
ServiceUnavailableMsg == "Service temporarily unavailable. Please try again later."
RetriesExhaustedMsg == "Unable to process your request after multiple attempts. Please try again later."
\* rag_manager.py
QueryTooLongMsg == "The query is taking too long to process. Please try a more specific question."
RetryShortlyMsg == "I'm processing multiple requests simultaneously. Please try your question again in a moment."
KnowledgeBaseUnavailableMsg == "Knowledge base temporarily unavailable. Please try again."
ServiceErrorMsg == "Service error. Please contact support."
\* optimized_query_engine.py
ValidQuestionMsg == "Please provide a valid question."
NoFallbackMsg == "I'm sorry, I'm experiencing technical difficulties. Please try again."
RevenueFallback == "Based on our business data, we track revenue across multiple dimensions including customer categories, projects, and time periods. For specific revenue analysis, please try rephrasing your question or contact support."
CustomerFallback == "Our customer analysis includes performance metrics across different sectors including Education, Commercial/Corporate, Government/Municipality, and Health & Community Services. Please try a more specific question about customer performance."
ProjectFallback == "We analyze project performance including revenue, duration, and resource allocation. For detailed project insights, please specify which aspects you're interested in."
GenericFallback == "I'm currently experiencing technical difficulties accessing the full knowledge base. Please try rephrasing your question or contact support for assistance."
NoDocumentsInstruction == "No specific documents were retrieved for this query. Please answer based SOLELY on the overall business summary provided above if it is relevant."
DocumentsHeader == "Here is the specific context retrieved from documents based on the user's query:\n"
ApologyMarker == "I apologize"

\* The failure strings generate_content_async returns instead of raising.
GeminiFailureStrings ==
    {EmptyResponseMsg, RequestTimedOutMsg, TechnicalDifficultiesMsg,
     ServiceUnavailableMsg, RetriesExhaustedMsg}

FallbackStrings ==
    {RevenueFallback, CustomerFallback, ProjectFallback, GenericFallback, NoFallbackMsg}

\* ------------------------------------------------ the external collaborators
\* Texts the remote model may generate (response.text, non-empty).
ModelTexts == {"Revenue grew 12% in Q3."}
\* What LightRAG.aquery may return: passages, or next to nothing.
RagTexts == {"Passage: revenue grew 12% in Q3", "  n/a  "}
\* Messages of the exceptions LightRAG.aquery may raise.
\* one of the concurrent-access class, one outside it.
NamespaceError == "Namespace pipeline_status not found in Shared-Data"
RagErrors == {NamespaceError, "connection reset by peer"}

Exc(type, msg) == [type |-> type, msg |-> msg]


\* =====================================================================
\* The pipeline coroutine: _execute_optimized_query and what it awaits.
\*
\* asyncio is cooperative: between two awaits a coroutine runs alone on the
\* loop thread.  A world w holds the two managers (w.g, w.r), the clock
\* (w.now), the running coroutine (w.c) and whether the loop thread is
\* blocked (w.blocked).  Each operator below runs the code from one point to
\* the next await of an external call, and returns the world at that await.
\* =====================================================================

\* GeminiClientManager's class attributes (gemini_client_manager.py:18-23)
\* and api_key (line 31).  lock is the holder of _lock (0: free).
GeminiInit(api_key) ==
    [api_key |-> api_key, client |-> "None", initialized |-> FALSE,
     last_test_time |-> 0, lock |-> 0]

\* RAGManager's class attributes (rag_manager.py:20-25).
RagInit ==
    [rag |-> "None", initialized |-> FALSE, last_health_check |-> 0, lock |-> 0]

\* A coroutine not yet scheduled.  documents: the prompt carries retrieved
\* context (line 103) rather than the summary-only instruction (line 106).
\* resets and sleeps record the calls of
\* reset_client and of asyncio.sleep made by generate_content_async, and
\* last_failure how its latest attempt failed ("none", "timeout", "error").
\* rag_error is the message of the exception aquery raised, rag_resets the
\* calls of reset_rag made by enhanced_query, rag_reset_failed whether that
\* reset raised, rag_outcome what enhanced_query returned or raised, and
\* cleanups the calls of finalize_share_data made by its finally clause.
CoIdle(id) ==
    [id |-> id, pc |-> "idle", query |-> "", mode |-> "", attempt |-> 0,
     documents |-> FALSE, outcome |-> [kind |-> "none", value |-> ""],
     resets |-> 0, sleeps |-> << >>, last_failure |-> "none",
     rag_error |-> "", rag_resets |-> 0, rag_reset_failed |-> FALSE,
     rag_outcome |-> [kind |-> "none", value |-> ""], cleanups |-> 0]

Suspend(w, at) == [w EXCEPT !.c.pc = at]
Return(w, text) ==
    [w EXCEPT !.c.pc = "done", !.c.outcome = [kind |-> "return", value |-> text]]
Raise(w, exc) ==
    [w EXCEPT !.c.pc = "done", !.c.outcome = [kind |-> "raise", value |-> exc.type]]
\* threading.Lock.acquire() on a lock another coroutine holds: the holder is
\* suspended on this same thread, so the loop thread blocks and nothing on the
\* loop runs again.
Block(w) == [w EXCEPT !.c.pc = "lock_wait", !.blocked = TRUE]

\* ------------------------------------------------- GeminiClientManager
\* The for loop of generate_content_async entering attempt k (lines 112-134):
\* awaits model.generate_content_async, or falls out of the loop.
StartAttempt(w, k) ==
    IF k < max_retries
    THEN Suspend([w EXCEPT !.c.attempt = k], "gen_await")
    ELSE Return(w, RetriesExhaustedMsg)

\* _initialize_client up to its await of _test_client (lines 60-73).  caller
\* is "get_configured_client" (reached from line 54, under the lock) or
\* "reset_client" (line 174, after the lock was released).
InitializeClientFailed(w, exc, caller) ==
    LET w1 == [w EXCEPT !.g.client = "None", !.g.initialized = FALSE]
    IN  IF caller = "get_configured_client"
        THEN \* the with block releases the lock; line 110 is outside the try
             Raise([w1 EXCEPT !.g.lock = 0], exc)
        ELSE \* reset_client re-raises (178); the bare except of line 156 returns
             Return(w1, ServiceUnavailableMsg)

InitializeClient(w, caller) ==
    IF ~w.g.api_key
    THEN InitializeClientFailed(w, Exc("ValueError", "GOOGLE_API_KEY not configured"), caller)
    ELSE Suspend([w EXCEPT !.g.client = "genai"],
                 IF caller = "get_configured_client" THEN "g_test_await" ELSE "g_reset_await")

\* _initialize_client after _test_client returned or raised (lines 73-83).
\* _test_client only warns on an empty response (line 99).
TestClientDone(w, inj, caller) ==
    IF inj.kind \in {"ok", "empty"}
    THEN LET w1 == [w EXCEPT !.g.initialized = TRUE, !.g.last_test_time = w.now]
         IN  IF caller = "get_configured_client"
             THEN StartAttempt([w1 EXCEPT !.g.lock = 0], 0)
             ELSE Return(w1, TechnicalDifficultiesMsg)
    ELSE InitializeClientFailed(
             w, Exc(IF inj.kind = "timeout" THEN "TimeoutError" ELSE "Exception", "test failed"),
             caller)

\* The condition of lines 45-47 and 51-53.
NeedsClientInit(g, current_time) ==
    \/ ~g.initialized
    \/ g.client = "None"
    \/ (current_time - g.last_test_time) > test_interval

\* generate_content_async from its first line: get_configured_client
\* (lines 40-56), then the first attempt.
GenerateContentAsync(w) ==
    IF NeedsClientInit(w.g, w.now)
    THEN IF w.g.lock # 0
         THEN Block(w)
         ELSE LET w1 == [w EXCEPT !.g.lock = w.c.id]
              IN  IF NeedsClientInit(w1.g, w.now)
                  THEN InitializeClient(w1, "get_configured_client")
                  ELSE StartAttempt([w1 EXCEPT !.g.lock = 0], 0)
    ELSE StartAttempt(w, 0)

\* reset_client (lines 164-178), called from line 154 on the last attempt.
ResetClient(w) ==
    IF w.g.lock # 0
    THEN Block(w)
    ELSE InitializeClient(
             [w EXCEPT !.g.client = "None", !.g.initialized = FALSE,
                       !.g.last_test_time = 0, !.c.resets = @ + 1],
             "reset_client")

\* One attempt's await returned or raised (lines 136-160).
AttemptDone(w0, inj) ==
    LET last == w0.c.attempt = max_retries - 1
        w == [w0 EXCEPT !.c.last_failure =
                 IF inj.kind \in {"timeout", "error"} THEN inj.kind ELSE "none"]
    IN  CASE inj.kind = "ok" -> Return(w, inj.text)
          [] inj.kind = "empty" -> Return(w, EmptyResponseMsg)
          [] inj.kind = "timeout" ->
                IF last THEN Return(w, RequestTimedOutMsg)
                ELSE StartAttempt(w, w.c.attempt + 1)
          [] OTHER ->
                IF last THEN ResetClient(w)
                ELSE Suspend([w EXCEPT !.c.sleeps = Append(@, 2 ^ w.c.attempt)],
                             "sleep_await")

\* ------------------------------------------------------- the orchestrator
\* _get_rag_context after enhanced_query returned (lines 138-143) or raised
\* (lines 145-147).
RagContext(outcome) ==
    LET rag_response == IF outcome.kind = "return" THEN outcome.value ELSE ""
    IN  IF Truthy(rag_response) /\ Len(Strip(rag_response)) > 10
        THEN rag_response ELSE ""

\* Step 3 of _execute_optimized_query (lines 100-106), after the summary.
FullContext(rag_context) ==
    IF Truthy(rag_context) /\ Truthy(Strip(rag_context))
    THEN DocumentsHeader \o rag_context
    ELSE NoDocumentsInstruction

\* _execute_optimized_query from the return of _get_rag_context to the first
\* await inside generate_content_async (lines 98-122).
AfterEnhancedQuery(w, outcome) ==
    GenerateContentAsync([w EXCEPT !.c.documents = Truthy(RagContext(outcome)),
                                   !.c.rag_outcome = outcome])

\* ---------------------------------------------------------------- RAGManager
\* The await of rag_instance.aquery (rag_manager.py:165-168).
StartAquery(w) == Suspend(w, "aquery_await")

\* _initialize_rag up to its await of initialize_storages (lines 86-100).
InitializeRag(w, at) == Suspend([w EXCEPT !.r.rag = "LightRAG"], at)

\* _initialize_rag after initialize_storages returned (lines 102-104).
InitializeRagOk(w) ==
    [w EXCEPT !.r.initialized = TRUE, !.r.last_health_check = w.now]

\* _initialize_rag's except clause (lines 106-110).
InitializeRagFailed(w) == [w EXCEPT !.r.rag = "None", !.r.initialized = FALSE]

\* _health_check_rag (lines 112-129); a LightRAG object has working_dir.
HealthCheckRag(w) ==
    IF w.r.rag # "None"
    THEN StartAquery([w EXCEPT !.r.last_health_check = w.now, !.r.lock = 0])
    ELSE \* "RAG instance invalid" has no "namespace" in it: line 129
         InitializeRag(w, "rag_init_await")

NeedsRagInit(r, current_time) ==
    \/ ~r.initialized
    \/ r.rag = "None"
    \/ (current_time - r.last_health_check) > health_check_interval

\* enhanced_query from its first line: get_rag_instance (lines 45-61) with
\* _initialize_or_refresh_rag (63-69), up to the first await.
EnhancedQuery(w) ==
    IF NeedsRagInit(w.r, w.now)
    THEN IF w.r.lock # 0
         THEN Block(w)
         ELSE LET w1 == [w EXCEPT !.r.lock = w.c.id]
              IN  IF NeedsRagInit(w1.r, w.now)
                  THEN IF w1.r.rag = "None"
                       THEN InitializeRag(w1, "rag_init_await")
                       ELSE HealthCheckRag(w1)
                  ELSE StartAquery([w1 EXCEPT !.r.lock = 0])
    ELSE StartAquery(w)

\* initialize_storages returned or raised, inside get_rag_instance.  first:
\* the call of line 67; otherwise the recovery call of line 75.
RagInitDone(w, inj, first) ==
    IF inj.kind = "ok"
    THEN StartAquery([InitializeRagOk(w) EXCEPT !.r.lock = 0])
    ELSE IF first
         THEN InitializeRag(InitializeRagFailed(w), "rag_init_await2")
         ELSE \* line 78 raises through get_rag_instance (the lock is released)
              \* and enhanced_query line 133, which is outside its try
              AfterEnhancedQuery([InitializeRagFailed(w) EXCEPT !.r.lock = 0],
                                 [kind |-> "raise", value |-> "Exception"])

\* reset_rag (lines 199-220) up to the await inside _initialize_rag.
ResetRag(w0) ==
    LET w == [w0 EXCEPT !.c.rag_resets = @ + 1]
    IN  IF w.r.lock # 0
        THEN Block(w)
        ELSE InitializeRag(
                 [w EXCEPT !.r.rag = "None", !.r.initialized = FALSE,
                           !.r.last_health_check = 0],
                 "rag_reset_await")

\* The test without str.lower().
IsNamespaceError_CaseSensitive(msg) ==
    Contains(msg, "namespace") /\ Contains(msg, "shared-data")

\* The except Exception clause of enhanced_query (lines 177-190).
IsNamespaceError(msg) ==
    Contains(Lower(msg), "namespace") /\ Contains(Lower(msg), "shared-data")

\* The finally clause of enhanced_query (lines 192-197): finalize_share_data
\* is called, and whatever it raises is swallowed.
Finally(w) == [w EXCEPT !.c.cleanups = @ + 1]

\* rag_instance.aquery returned, timed out or raised (lines 165-197).
AqueryDone(w, inj) ==
    CASE inj.kind = "ok" ->
            AfterEnhancedQuery(Finally(w), [kind |-> "return", value |-> inj.text])
      [] inj.kind = "timeout" ->
            AfterEnhancedQuery(Finally(w),
                               [kind |-> "return", value |-> QueryTooLongMsg])
      [] OTHER ->
            LET w1 == [w EXCEPT !.c.rag_error = inj.text]
            IN  IF IsNamespaceError(inj.text)
                THEN AfterEnhancedQuery(Finally(w1),
                                        [kind |-> "return", value |-> RetryShortlyMsg])
                ELSE ResetRag(w1)

\* initialize_storages returned or raised, inside reset_rag (lines 186-190).
RagResetDone(w, inj) ==
    IF inj.kind = "ok"
    THEN AfterEnhancedQuery(Finally(InitializeRagOk(w)),
                            [kind |-> "return", value |-> KnowledgeBaseUnavailableMsg])
    ELSE AfterEnhancedQuery(
             Finally([InitializeRagFailed(w) EXCEPT !.c.rag_reset_failed = TRUE]),
             [kind |-> "return", value |-> ServiceErrorMsg])

\* _execute_optimized_query from its first line to its first await.
ExecuteOptimizedQuery(w, query, mode) ==
    EnhancedQuery([w EXCEPT !.c.pc = "running", !.c.query = query, !.c.mode = mode])

\* What an awaited external call may do, by the await the coroutine is at.
Inj(kind, text) == [kind |-> kind, text |-> text]
Injections(at) ==
    CASE at \in {"rag_init_await", "rag_init_await2", "rag_reset_await"} ->
            {Inj("ok", ""), Inj("error", "storage initialization failed")}
      [] at = "aquery_await" ->
            {Inj("ok", t) : t \in RagTexts} \cup {Inj("timeout", "")}
                \cup {Inj("error", e) : e \in RagErrors}
      [] at \in {"g_test_await", "g_reset_await"} ->
            {Inj("ok", ""), Inj("empty", ""), Inj("timeout", ""), Inj("error", "")}
      [] at = "gen_await" ->
            {Inj("ok", t) : t \in ModelTexts}
                \cup {Inj("empty", ""), Inj("timeout", ""), Inj("error", "")}
      [] at = "sleep_await" -> {Inj("ok", "")}
      [] OTHER -> {}

\* The coroutine suspended at w.c.pc is resumed with what its await produced.
Resume(w, inj) ==
    CASE w.c.pc = "rag_init_await" -> RagInitDone(w, inj, TRUE)
      [] w.c.pc = "rag_init_await2" -> RagInitDone(w, inj, FALSE)
      [] w.c.pc = "aquery_await" -> AqueryDone(w, inj)
      [] w.c.pc = "rag_reset_await" -> RagResetDone(w, inj)
      [] w.c.pc = "g_test_await" -> TestClientDone(w, inj, "get_configured_client")
      [] w.c.pc = "g_reset_await" -> TestClientDone(w, inj, "reset_client")
      [] w.c.pc = "gen_await" -> AttemptDone(w, inj)
      [] w.c.pc = "sleep_await" -> StartAttempt(w, w.c.attempt + 1)
      [] OTHER -> w


\* ------------------------------------------------ the pipeline, run alone
\* Every way one pipeline can end when no other coroutine is on the loop:
\* the coroutine is resumed, with each thing its awaits may produce, until it
\* is done.
RECURSIVE Outcomes(_)
Outcomes(w) ==
    IF w.c.pc = "done"
    THEN {[kind |-> w.c.outcome.kind, value |-> w.c.outcome.value,
           documents |-> w.c.documents, resets |-> w.c.resets]}
    ELSE UNION {Outcomes(Resume(w, inj)) : inj \in Injections(w.c.pc)}

\* The states the managers rest in between pipelines: never initialized
\* (with or without an API key), or initialized at time 0.
GeminiRestStates ==
    {GeminiInit(k) : k \in BOOLEAN}
        \cup {[GeminiInit(TRUE) EXCEPT !.client = "genai", !.initialized = TRUE]}
RagRestStates ==
    {RagInit, [RagInit EXCEPT !.rag = "LightRAG", !.initialized = TRUE]}

PipelineStarts ==
    {[g |-> g, r |-> r, now |-> t, c |-> CoIdle(1), blocked |-> FALSE] :
        g \in GeminiRestStates, r \in RagRestStates,
        t \in {0, test_interval + 1, health_check_interval + 1}}

PipelineOutcomes ==
    UNION {Outcomes(ExecuteOptimizedQuery(w, "q", "mix")) : w \in PipelineStarts}

\* ------------------------------------------------------- FlaskAsyncManager
\* run_async (event_loop_manager.py:53-74) as the request thread sees it.
\* sched is what the thread meets: "running"; "shutdown" (line 56);
\* "start_failed" (_start_event_loop raises, line 49); "loop_closed"
\* (run_coroutine_threadsafe raises on a closed loop, line 64);
\* "result_timeout" (future.result times out, lines 65-70).  A TimeoutError
\* raised by the coroutine itself is caught by line 68 as well.
SchedulerStates ==
    {"running", "shutdown", "start_failed", "loop_closed", "result_timeout"}

RunAsync(sched, outcome) ==
    CASE sched = "running" ->
            IF outcome.kind = "raise" /\ outcome.value = "TimeoutError"
            THEN [kind |-> "raise", value |-> "RuntimeError"]
            ELSE [kind |-> outcome.kind, value |-> outcome.value]
      [] OTHER -> [kind |-> "raise", value |-> "RuntimeError"]

\* run_async_in_flask(self._execute_optimized_query(...)) as a whole
\* (optimized_query_engine.py:65).
RunAsyncInFlask == {RunAsync(s, o) : s \in SchedulerStates, o \in PipelineOutcomes}

\* =====================================================================
\* State
\* =====================================================================
VARIABLES
    now,             \* time.time()
    \* --- the query engine, the monitor and the request threads (Spec)
    query_cache,     \* OptimizedQueryEngine.query_cache: cache_key -> result
    cache_expiry,    \* OptimizedQueryEngine.cache_expiry, in dict order:
                     \* a sequence of <<cache_key, expiry>>
    monitor,         \* PerformanceMonitor's counters
    pc,              \* where each request thread is in query_with_optimizations
    frame,           \* its arguments and locals, and what the call did
    admin,           \* where the /api/cache/clear handler is
    prev,            \* the call that returned last
    \* --- the managers and the event loop's coroutines (SpecMgr)
    gemini_manager,  \* GeminiClientManager's attributes
    rag_manager,     \* RAGManager's attributes
    co,              \* the pipeline coroutines on the loop, by id
    loop_blocked,    \* the loop thread is blocked in Lock.acquire()
    \* --- the Mistral rate limiter and the coroutines calling it (SpecRate)
    mistral_rate_limiter, \* MistralRateLimiter's attributes
    mistral_co,      \* the coroutines in mistral_llm_func, by id
    mistral_calls,   \* the times at which the API calls so far were started
    \* --- the event loop manager and the threads in run_async (SpecLoop)
    async_manager,   \* FlaskAsyncManager's _loop, _thread and _shutdown
    loops,           \* the event loops created so far, each one's state
    loop_threads,    \* the FlaskAsyncLoop threads started so far
    submitter        \* where each request thread is in run_async

rate_vars == <<mistral_rate_limiter, mistral_co, mistral_calls>>
mgr_vars == <<gemini_manager, rag_manager, co, loop_blocked, rate_vars>>
engine_vars == <<query_cache, cache_expiry, monitor, pc, frame, admin, prev>>
async_vars == <<async_manager, loops, loop_threads, submitter>>
vars == <<now, engine_vars, mgr_vars, async_vars>>

\* async_manager = FlaskAsyncManager() (event_loop_manager.py:117): __init__
\* has started the first FlaskAsyncLoop thread and seen its loop (lines 22-24).
\* A request thread outside run_async.  loop is the loop its operation was
\* queued on (0: none), outcome what run_async returned or raised; the other
\* fields record the call: the _shutdown flag it read at line 55, whether it
\* restarted the loop (line 60), and what its operation did once run.
SubmitterIdle ==
    [pc |-> "idle", loop |-> 0, outcome |-> [kind |-> "none", value |-> ""],
     shutdown_seen |-> FALSE, restarted |-> FALSE, op |-> [kind |-> "none", value |-> ""]]

\* MistralRateLimiter.__init__ (rag_config.py:70-72).
MistralRateLimiterInit ==
    [min_interval |-> 1 \div requests_per_second, last_request_time |-> 0]

\* A coroutine outside mistral_llm_func; wake is the time its sleep ends.
MistralIdle == [pc |-> "idle", wake |-> 0]

\* mistral_rate_limiter as the module creates it (rag_config.py:83), no
\* coroutine in mistral_llm_func and no API call made.
RateIdle ==
    /\ mistral_rate_limiter = MistralRateLimiterInit
    /\ mistral_co = [c \in CoIds |-> MistralIdle]
    /\ mistral_calls = << >>

LoopStarted ==
    /\ async_manager = [loop |-> 1, thread |-> 1, shutdown |-> FALSE]
    /\ loops = <<"running">>
    /\ loop_threads = <<[pc |-> "run_forever", loop |-> 1]>>
    /\ submitter = [t \in Threads |-> SubmitterIdle]

\* time passes
Tick ==
    /\ now < MaxTime
    /\ now' = now + 1

\* =====================================================================
\* The query engine: query_with_optimizations on the request threads
\* =====================================================================
\* What the web layer passes as query (app.py:287): text, or not text.
NonText == {None}
Queries == {None, "   ", "How did revenue change?", " what about that customer "}
Modes == {"fast", "mix"}
\* The requests of a run: two that are rejected, three with distinct keys.
Requests ==
    {<<None, "mix">>, <<"   ", "mix">>, <<"How did revenue change?", "fast">>,
     <<"How did revenue change?", "mix">>, <<" what about that customer ", "mix">>}

\* n copies of s
RECURSIVE Repeat(_, _)
Repeat(s, n) ==
    IF n = 0 THEN ""
    ELSE LET half == Repeat(s, n \div 2)
         IN  IF n % 2 = 0 THEN half \o half ELSE half \o half \o s

\* Queries around the length limit: at it, one over it, and over it only
\* when the surrounding whitespace is counted.
LongQueries ==
    {Repeat("a", max_query_length), Repeat("a", max_query_length + 1),
     " " \o Repeat("a", max_query_length + 1), Repeat("a", max_query_length) \o " "}

\* Queries for each branch of the fallback, in either case, and queries that
\* are rejected.
KeywordQueries ==
    {"Revenue by CUSTOMER and project", "Top Customers per project",
     "PROJECT status", "Staffing levels"}
QueryInputs == {None, "", " \t\n"} \cup KeywordQueries \cup LongQueries

\* A truncation that appends no marker.
PreprocessQuery_NoEllipsis(query) ==
    IF query \in NonText \/ query = ""
    THEN ""
    ELSE LET cleaned_query == Strip(query)
         IN  IF Len(cleaned_query) > max_query_length
             THEN SubSeq(cleaned_query, 1, max_query_length)
             ELSE cleaned_query

\* _preprocess_query (optimized_query_engine.py:175-185)
PreprocessQuery(query) ==
    IF query \in NonText \/ query = ""
    THEN ""
    ELSE LET cleaned_query == Strip(query)
         IN  IF Len(cleaned_query) > max_query_length
             THEN SubSeq(cleaned_query, 1, max_query_length) \o "..."
             ELSE cleaned_query

\* cache_key = f"{query}_{mode}" (lines 189, 204)
CacheKey(query, mode) == query \o "_" \o mode

\* A fallback with nothing to say.
GenerateFallbackResponse_Nothing(query) == ""

\* A fallback that matches the keywords as written.
GenerateFallbackResponse_CaseSensitive(query) ==
    IF Contains(query, "revenue") THEN RevenueFallback
    ELSE IF Contains(query, "customer") THEN CustomerFallback
    ELSE IF Contains(query, "project") THEN ProjectFallback
    ELSE GenericFallback

\* _generate_fallback_response (lines 216-227)
GenerateFallbackResponse(query) ==
    IF Contains(Lower(query), "revenue") THEN RevenueFallback
    ELSE IF Contains(Lower(query), "customer") THEN CustomerFallback
    ELSE IF Contains(Lower(query), "project") THEN ProjectFallback
    ELSE GenericFallback

\* The condition of line 68.
Cacheable(result) == Truthy(result) /\ ~StartsWith(result, ApologyMarker)

\* --- query_cache, a dict whose order is never observed: a function
EmptyDict == [k \in {} |-> ""]
FunSet(f, k, v) == [x \in DOMAIN f \cup {k} |-> IF x = k THEN v ELSE f[x]]
FunPop(f, k) == [x \in DOMAIN f \ {k} |-> f[x]]

\* --- cache_expiry, a dict iterated by min(): a sequence of <<key, value>>
DictKeys(d) == {d[i][1] : i \in 1..Len(d)}
DictIndex(d, k) == CHOOSE i \in 1..Len(d) : d[i][1] = k

\* A get that finds nothing.
DictGet_Default(d, k, default) == default

\* dict.get
DictGet(d, k, default) == IF k \in DictKeys(d) THEN d[DictIndex(d, k)][2] ELSE default
DictSet(d, k, v) ==
    IF k \in DictKeys(d) THEN [d EXCEPT ![DictIndex(d, k)] = <<k, v>>]
    ELSE Append(d, <<k, v>>)
DictPop(d, k) == SelectSeq(d, LAMBDA e : e[1] # k)

\* The key inserted last.
OldestKey_Newest(d) == d[Len(d)][1]

\* min(self.cache_expiry.keys(), key=lambda k: self.cache_expiry[k]) (line
\* 209): the first key, in dict order, whose expiry is the least.
OldestKey(d) ==
    LET i == CHOOSE i \in 1..Len(d) :
                 /\ \A j \in 1..Len(d) : d[i][2] <= d[j][2]
                 /\ \A j \in 1..(i - 1) : d[j][2] > d[i][2]
    IN  d[i][1]

\* PerformanceMonitor.__init__ (performance_monitor.py:26-27): the aggregate
\* counters.  The write-only metrics (cache_stats, response_times,
\* recent_metrics) are kept per call instead, in frame: hits, misses and ends
\* count the call's record_cache_hit, record_cache_miss and
\* record_request_end.
MonitorInit == [total_requests |-> 0, total_errors |-> 0]

\* record_request_start (lines 40-42), under the monitor's lock
RecordRequestStart(m) == [m EXCEPT !.total_requests = @ + 1]

\* An error counter that starts again at each success.
RecordRequestEnd_Consecutive(m, success) ==
    [m EXCEPT !.total_errors = IF success THEN 0 ELSE @ + 1]

\* record_request_end (lines 53-58), under the monitor's lock
RecordRequestEnd(m, success) ==
    IF success THEN m ELSE [m EXCEPT !.total_errors = @ + 1]

\* A request thread outside query_with_optimizations.  From submitted on, the
\* fields record what the call did: whether it reached run_async_in_flask,
\* its calls of the monitor, when it compared the expiry, whether and when
\* it stored its result.
NoCall == [query |-> "", mode |-> "", ret |-> None, stored |-> FALSE, at |-> 0]
FrameIdle ==
    [query |-> None, mode |-> "", processed_query |-> "",
     result |-> None, oldest_key |-> None, exc |-> "", ret |-> None, failed |-> FALSE,
     submitted |-> FALSE, starts |-> 0, hits |-> 0, misses |-> 0, ends |-> 0,
     checked_at |-> 0,
     stored |-> FALSE, stored_at |-> 0]

Key(t) == CacheKey(frame[t].processed_query, frame[t].mode)

\* return: the locals of the call are gone, its return value is ret;
\* oldest_key stays as the record of what the call evicted.
Returned(f, ret) == [f EXCEPT !.result = None, !.exc = "", !.ret = ret]

EngineIdle ==
    /\ query_cache = EmptyDict
    /\ cache_expiry = << >>
    /\ monitor = MonitorInit
    /\ pc = [t \in Threads |-> "idle"]
    /\ frame = [t \in Threads |-> FrameIdle]
    /\ admin = "idle"
    /\ prev = NoCall

Goto(t, at) == pc' = [pc EXCEPT ![t] = at]

\* Lines 44-51: record_request_start, _preprocess_query, the rejection.
StartCall(t, query, mode) ==
    /\ pc[t] = "idle"
    /\ monitor.total_requests < MaxCalls
    /\ monitor' = RecordRequestStart(monitor)
    /\ LET processed_query == PreprocessQuery(query)
           f == [FrameIdle EXCEPT !.query = query, !.mode = mode, !.starts = 1,
                                  !.processed_query = processed_query]
       IN  IF ~Truthy(processed_query)
           THEN /\ frame' = [frame EXCEPT ![t] = [f EXCEPT !.ret = ValidQuestionMsg]]
                /\ Goto(t, "done")
           ELSE /\ frame' = [frame EXCEPT ![t] = f]
                /\ Goto(t, "check")
    /\ UNCHANGED <<now, query_cache, cache_expiry, admin, prev, mgr_vars, async_vars>>

\* _check_cache, line 191: cache_key in self.query_cache
CheckCacheIn(t) ==
    /\ pc[t] = "check"
    /\ Goto(t, IF Key(t) \in DOMAIN query_cache THEN "cc_expiry" ELSE "exec")
    /\ UNCHANGED <<now, query_cache, cache_expiry, monitor, frame, admin, prev,
                   mgr_vars, async_vars>>

\* An entry that is still served at its expiry time.
StillValid_Inclusive(cache_key) == now <= DictGet(cache_expiry, cache_key, 0)

\* The condition of line 193.
StillValid(cache_key) == now < DictGet(cache_expiry, cache_key, 0)

\* line 193: time.time() < self.cache_expiry.get(cache_key, 0)
CheckCacheExpiry(t) ==
    /\ pc[t] = "cc_expiry"
    /\ Goto(t, IF StillValid(Key(t)) THEN "cc_read" ELSE "cc_pop1")
    /\ frame' = [frame EXCEPT ![t].checked_at = now]
    /\ UNCHANGED <<now, query_cache, cache_expiry, monitor, admin, prev, mgr_vars, async_vars>>

\* line 194: return self.query_cache[cache_key]; then lines 56-60:
\* record_cache_hit, record_request_end, return cached_result
CheckCacheRead(t) ==
    /\ pc[t] = "cc_read"
    /\ IF Key(t) \in DOMAIN query_cache
       THEN LET cached_result == query_cache[Key(t)]
            IN  IF Truthy(cached_result)
                THEN /\ frame' = [frame EXCEPT ![t] =
                                     Returned([@ EXCEPT !.hits = @ + 1, !.ends = @ + 1],
                                              cached_result)]
                     /\ monitor' = RecordRequestEnd(monitor, TRUE)
                     /\ Goto(t, "done")
                ELSE /\ frame' = frame
                     /\ monitor' = monitor
                     /\ Goto(t, "exec")
       ELSE /\ frame' = [frame EXCEPT ![t].exc = "KeyError"]
            /\ monitor' = monitor
            /\ Goto(t, "except")
    /\ UNCHANGED <<now, query_cache, cache_expiry, admin, prev, mgr_vars, async_vars>>

\* line 197: self.query_cache.pop(cache_key, None)
CheckCachePop1(t) ==
    /\ pc[t] = "cc_pop1"
    /\ query_cache' = FunPop(query_cache, Key(t))
    /\ Goto(t, "cc_pop2")
    /\ UNCHANGED <<now, cache_expiry, monitor, frame, admin, prev, mgr_vars, async_vars>>

\* line 198: self.cache_expiry.pop(cache_key, None)
CheckCachePop2(t) ==
    /\ pc[t] = "cc_pop2"
    /\ cache_expiry' = DictPop(cache_expiry, Key(t))
    /\ Goto(t, "exec")
    /\ UNCHANGED <<now, query_cache, monitor, frame, admin, prev, mgr_vars, async_vars>>

\* lines 62-68: record_cache_miss, run_async_in_flask, the test of line 68
Execute(t) ==
    /\ pc[t] = "exec"
    /\ \E r \in RunAsyncInFlask :
         LET f == [frame[t] EXCEPT !.misses = @ + 1, !.submitted = TRUE]
         IN  IF r.kind = "raise"
             THEN /\ frame' = [frame EXCEPT ![t] = [f EXCEPT !.exc = r.value]]
                  /\ Goto(t, "except")
             ELSE /\ frame' = [frame EXCEPT ![t] = [f EXCEPT !.result = r.value]]
                  /\ Goto(t, IF Cacheable(r.value) THEN "store_len" ELSE "end")
    /\ UNCHANGED <<now, query_cache, cache_expiry, monitor, admin, prev, mgr_vars, async_vars>>

\* _cache_result, line 207: len(self.query_cache) >= 100
StoreLen(t) ==
    /\ pc[t] = "store_len"
    /\ Goto(t, IF Cardinality(DOMAIN query_cache) >= CacheCapacity
               THEN "store_min" ELSE "store_set1")
    /\ UNCHANGED <<now, query_cache, cache_expiry, monitor, frame, admin, prev,
                   mgr_vars, async_vars>>

\* line 209: min() of the keys of cache_expiry (ValueError when there are none)
StoreMin(t) ==
    /\ pc[t] = "store_min"
    /\ IF cache_expiry = << >>
       THEN /\ frame' = [frame EXCEPT ![t].exc = "ValueError"]
            /\ Goto(t, "except")
       ELSE /\ frame' = [frame EXCEPT ![t].oldest_key = OldestKey(cache_expiry)]
            /\ Goto(t, "store_pop1")
    /\ UNCHANGED <<now, query_cache, cache_expiry, monitor, admin, prev, mgr_vars, async_vars>>

\* line 210: self.query_cache.pop(oldest_key, None)
StorePop1(t) ==
    /\ pc[t] = "store_pop1"
    /\ query_cache' = FunPop(query_cache, frame[t].oldest_key)
    /\ Goto(t, "store_pop2")
    /\ UNCHANGED <<now, cache_expiry, monitor, frame, admin, prev, mgr_vars, async_vars>>

\* line 211: self.cache_expiry.pop(oldest_key, None)
StorePop2(t) ==
    /\ pc[t] = "store_pop2"
    /\ cache_expiry' = DictPop(cache_expiry, frame[t].oldest_key)
    /\ Goto(t, "store_set1")
    /\ UNCHANGED <<now, query_cache, monitor, frame, admin, prev, mgr_vars, async_vars>>

\* line 213: self.query_cache[cache_key] = result
StoreSet1(t) ==
    /\ pc[t] = "store_set1"
    /\ query_cache' = FunSet(query_cache, Key(t), frame[t].result)
    /\ Goto(t, "store_set2")
    /\ UNCHANGED <<now, cache_expiry, monitor, frame, admin, prev, mgr_vars, async_vars>>

\* line 214: self.cache_expiry[cache_key] = time.time() + self.cache_ttl;
\* then lines 71-72: record_request_end(..., True), return result
StoreSet2(t) ==
    /\ pc[t] = "store_set2"
    /\ cache_expiry' = DictSet(cache_expiry, Key(t), now + cache_ttl)
    /\ frame' = [frame EXCEPT ![t] =
                    Returned([@ EXCEPT !.stored = TRUE, !.stored_at = now, !.ends = @ + 1],
                             frame[t].result)]
    /\ monitor' = RecordRequestEnd(monitor, TRUE)
    /\ Goto(t, "done")
    /\ UNCHANGED <<now, query_cache, admin, prev, mgr_vars, async_vars>>

\* A result that is not stored (line 68); lines 71-72 as above.
EndCall(t) ==
    /\ pc[t] = "end"
    /\ frame' = [frame EXCEPT ![t] = Returned([@ EXCEPT !.ends = @ + 1], frame[t].result)]
    /\ monitor' = RecordRequestEnd(monitor, TRUE)
    /\ Goto(t, "done")
    /\ UNCHANGED <<now, query_cache, cache_expiry, admin, prev, mgr_vars, async_vars>>

\* lines 74-80: record_request_end(..., False, ...), the fallback response
\* (enable_fallback is True, line 23).  query.lower() (line 220) raises
\* AttributeError on a query that is not text, and nothing catches it.
ExceptCall(t) ==
    /\ pc[t] = "except"
    /\ monitor' = RecordRequestEnd(monitor, FALSE)
    /\ IF frame[t].query \in NonText
       THEN /\ frame' = [frame EXCEPT ![t] = [@ EXCEPT !.ends = @ + 1, !.failed = TRUE,
                                                       !.exc = "AttributeError"]]
            /\ Goto(t, "raised")
       ELSE /\ frame' = [frame EXCEPT ![t] =
                            Returned([@ EXCEPT !.ends = @ + 1, !.failed = TRUE],
                                     GenerateFallbackResponse(frame[t].query))]
            /\ Goto(t, "done")
    /\ UNCHANGED <<now, query_cache, cache_expiry, admin, prev, mgr_vars, async_vars>>

\* The web layer has the answer, or the exception (app.py:287); the thread
\* is free again.
Finish(t) ==
    /\ pc[t] \in {"done", "raised"}
    /\ frame' = [frame EXCEPT ![t] = FrameIdle]
    /\ Goto(t, "idle")
    /\ UNCHANGED <<now, query_cache, cache_expiry, monitor, admin, prev, mgr_vars, async_vars>>

\* The same when calls run one at a time: prev remembers the call, with the
\* time it stored its result (or, having stored nothing, returned).
SeqFinish(t) ==
    /\ pc[t] \in {"done", "raised"}
    /\ prev' = [query |-> frame[t].processed_query, mode |-> frame[t].mode,
                ret |-> frame[t].ret, stored |-> frame[t].stored,
                at |-> IF frame[t].stored THEN frame[t].stored_at ELSE now]
    /\ frame' = [frame EXCEPT ![t] = FrameIdle]
    /\ Goto(t, "idle")
    /\ UNCHANGED <<now, query_cache, cache_expiry, monitor, admin, mgr_vars, async_vars>>

\* --- POST /api/cache/clear (app.py:163-171)
\* clear_cache, line 231: self.query_cache.clear()
ClearQueryCache ==
    /\ admin = "idle"
    /\ query_cache' = EmptyDict
    /\ admin' = "clear_expiry"
    /\ prev' = NoCall
    /\ UNCHANGED <<now, cache_expiry, monitor, pc, frame, mgr_vars, async_vars>>

\* clear_cache, line 232: self.cache_expiry.clear()
ClearCacheExpiry ==
    /\ admin = "clear_expiry"
    /\ cache_expiry' = << >>
    /\ admin' = "reset_metrics"
    /\ UNCHANGED <<now, query_cache, monitor, pc, frame, prev, mgr_vars, async_vars>>

\* reset_metrics (performance_monitor.py:186-196)
ResetMetrics ==
    /\ admin = "reset_metrics"
    /\ monitor' = MonitorInit
    /\ admin' = "idle"
    /\ UNCHANGED <<now, query_cache, cache_expiry, pc, frame, prev, mgr_vars, async_vars>>

EngineTick == now < MaxClock /\ Tick /\ UNCHANGED <<engine_vars, mgr_vars, async_vars>>

Init ==
    /\ now = 0
    /\ EngineIdle
    /\ gemini_manager = GeminiInit(TRUE)
    /\ rag_manager = RagInit
    /\ co = [c \in CoIds |-> CoIdle(c)]
    /\ loop_blocked = FALSE
    /\ RateIdle
    /\ LoopStarted

Step(t) ==
    \/ CheckCacheIn(t) \/ CheckCacheExpiry(t) \/ CheckCacheRead(t)
    \/ CheckCachePop1(t) \/ CheckCachePop2(t) \/ Execute(t)
    \/ StoreLen(t) \/ StoreMin(t) \/ StorePop1(t) \/ StorePop2(t)
    \/ StoreSet1(t) \/ StoreSet2(t) \/ EndCall(t) \/ ExceptCall(t)

Next ==
    \/ \E t \in Threads, r \in Requests : StartCall(t, r[1], r[2])
    \/ \E t \in Threads : Step(t) \/ Finish(t)
    \/ EngineTick

Spec == Init /\ [][Next]_vars

\* One call at a time: a call starts, and the cache is cleared, only when no
\* other call or clear is running.
Quiet == admin = "idle" /\ \A t \in Threads : pc[t] = "idle"

SeqNext ==
    \/ \E t \in Threads, r \in Requests : Quiet /\ StartCall(t, r[1], r[2])
    \/ \E t \in Threads : Step(t) \/ SeqFinish(t)
    \/ (Quiet /\ ClearQueryCache) \/ ClearCacheExpiry \/ ResetMetrics
    \/ EngineTick

SpecSeq == Init /\ [][SeqNext]_vars

\* One request thread, given every kind of query the web layer may pass.
QueriesNext ==
    \/ \E q \in QueryInputs : StartCall(1, q, "mix")
    \/ Step(1) \/ Finish(1)
    \/ EngineTick

SpecQueries == Init /\ [][QueriesNext]_vars

\* One request thread, calls one at a time, given the query and the mode of
\* the request body as they come (app.py:273-274): mode is any string.
KeyRequests ==
    {<<"revenue_fast", "mix">>, <<"revenue", "fast_mix">>, <<"revenue", "fast">>,
     <<"costs", "mix">>}

KeysNext ==
    \/ \E r \in KeyRequests : StartCall(1, r[1], r[2])
    \/ Step(1) \/ SeqFinish(1)
    \/ EngineTick

SpecKeys == Init /\ [][KeysNext]_vars

\* One request thread in query_with_optimizations while the handler of
\* POST /api/cache/clear runs on another thread, at any point of the call.
AdminNext ==
    \/ \E r \in Requests : StartCall(1, r[1], r[2])
    \/ Step(1) \/ Finish(1)
    \/ ClearQueryCache \/ ClearCacheExpiry \/ ResetMetrics
    \/ EngineTick

SpecAdmin == Init /\ [][AdminNext]_vars

\* =====================================================================
\* SpecMgr: pipelines interleaving on the event loop
\* =====================================================================
MgrModes == {"fast"}
MgrQueries == {"How did revenue change?"}

World(c) ==
    [g |-> gemini_manager, r |-> rag_manager, now |-> now, c |-> co[c],
     blocked |-> loop_blocked]

Install(w) ==
    /\ gemini_manager' = w.g
    /\ rag_manager' = w.r
    /\ co' = [co EXCEPT ![w.c.id] = w.c]
    /\ loop_blocked' = w.blocked

MgrInit ==
    /\ now = 0
    /\ EngineIdle
    /\ gemini_manager \in {GeminiInit(k) : k \in BOOLEAN}
    /\ rag_manager = RagInit
    /\ co = [c \in CoIds |-> CoIdle(c)]
    /\ loop_blocked = FALSE
    /\ RateIdle
    /\ LoopStarted

\* run_coroutine_threadsafe(self._execute_optimized_query(query, mode), loop):
\* the loop starts the coroutine, which runs to its first await.
Schedule(c, query, mode) ==
    /\ ~loop_blocked
    /\ co[c].pc = "idle"
    /\ Install(ExecuteOptimizedQuery(World(c), query, mode))
    /\ UNCHANGED <<now, engine_vars, rate_vars, async_vars>>

\* An awaited call completes and the loop resumes the coroutine.
ResumeCo(c) ==
    /\ ~loop_blocked
    /\ \E inj \in Injections(co[c].pc) : Install(Resume(World(c), inj))
    /\ UNCHANGED <<now, engine_vars, rate_vars, async_vars>>

\* future.result() hands the outcome to the request thread.
Complete(c) ==
    /\ co[c].pc = "done"
    /\ co' = [co EXCEPT ![c] = CoIdle(c)]
    /\ UNCHANGED <<now, engine_vars, gemini_manager, rag_manager, loop_blocked,
                   rate_vars, async_vars>>

MgrTick == Tick /\ UNCHANGED <<engine_vars, mgr_vars, async_vars>>

MgrNext ==
    \/ \E c \in CoIds, q \in MgrQueries, m \in MgrModes : Schedule(c, q, m)
    \/ \E c \in CoIds : ResumeCo(c)
    \/ \E c \in CoIds : Complete(c)
    \/ MgrTick

SpecMgr == MgrInit /\ [][MgrNext]_vars


\* =====================================================================
\* SpecRate: the coroutines in mistral_llm_func and the MistralRateLimiter
\* they share (rag_config.py)
\* =====================================================================
\* wait_if_needed, lines 75-78: how long the caller sleeps (0: not at all).
WaitTime(limiter, current_time) ==
    LET time_since_last == current_time - limiter.last_request_time
    IN  IF time_since_last < limiter.min_interval
        THEN limiter.min_interval - time_since_last
        ELSE 0

\* wait_if_needed, line 80, and mistral_llm_func from there to its await of
\* chat.complete_async (lines 137-154): the API call is started.
CompleteAsync(c) ==
    /\ mistral_rate_limiter' = [mistral_rate_limiter EXCEPT !.last_request_time = now]
    /\ mistral_calls' = Append(mistral_calls, now)
    /\ mistral_co' = [mistral_co EXCEPT ![c].pc = "api_await"]

\* mistral_llm_func is called: wait_if_needed runs to its asyncio.sleep, or
\* without sleeping on to the API call.
MistralLlmFunc(c) ==
    /\ mistral_co[c].pc = "idle"
    /\ Len(mistral_calls) + Cardinality({d \in CoIds : mistral_co[d].pc = "sleep"})
           < MaxMistralCalls
    /\ LET wait_time == WaitTime(mistral_rate_limiter, now)
       IN  IF wait_time > 0
           THEN /\ mistral_co' = [mistral_co EXCEPT ![c] = [pc |-> "sleep",
                                                            wake |-> now + wait_time]]
                /\ UNCHANGED <<mistral_rate_limiter, mistral_calls>>
           ELSE CompleteAsync(c)
    /\ UNCHANGED <<now, engine_vars, gemini_manager, rag_manager, co, loop_blocked,
                   async_vars>>

\* asyncio.sleep(wait_time) is over (line 79) and the coroutine goes on.
WakeUp(c) ==
    /\ mistral_co[c].pc = "sleep"
    /\ now >= mistral_co[c].wake
    /\ CompleteAsync(c)
    /\ UNCHANGED <<now, engine_vars, gemini_manager, rag_manager, co, loop_blocked,
                   async_vars>>

\* chat.complete_async returned or raised; mistral_llm_func returns the
\* content or the error text (lines 156-160).
MistralReturn(c) ==
    /\ mistral_co[c].pc = "api_await"
    /\ mistral_co' = [mistral_co EXCEPT ![c] = MistralIdle]
    /\ UNCHANGED <<now, engine_vars, gemini_manager, rag_manager, co, loop_blocked,
                   mistral_rate_limiter, mistral_calls, async_vars>>

RateTick ==
    /\ now < MaxRateTime
    /\ now' = now + 1
    /\ UNCHANGED <<engine_vars, mgr_vars, async_vars>>

\* time.time() is far from 0, the limiter's initial last_request_time, when
\* the first call is made.
RateInit ==
    /\ now = 1
    /\ EngineIdle
    /\ gemini_manager = GeminiInit(TRUE)
    /\ rag_manager = RagInit
    /\ co = [c \in CoIds |-> CoIdle(c)]
    /\ loop_blocked = FALSE
    /\ RateIdle
    /\ LoopStarted

RateNext ==
    \/ \E c \in CoIds : MistralLlmFunc(c) \/ WakeUp(c) \/ MistralReturn(c)
    \/ RateTick

SpecRate == RateInit /\ [][RateNext]_vars

\* C23: any two Mistral API calls are started at least min_interval apart.
C23_OneRequestPerInterval ==
    \A i, j \in 1..Len(mistral_calls) :
        i < j => mistral_calls[j] - mistral_calls[i] >= mistral_rate_limiter.min_interval

\* =====================================================================
\* Claims about the managers (SpecMgr)
\* =====================================================================
GeminiInitAwaits == {"g_test_await", "g_reset_await"}
RagInitAwaits == {"rag_init_await", "rag_init_await2", "rag_reset_await"}
Finished(c) == co[c].pc = "done"

\* C8: generate_content_async never raises to its caller: whatever fails
\* (client configuration, connectivity test, a generation attempt), the call
\* ends by returning a non-empty string.
C8_GenerateNeverRaises ==
    \A c \in CoIds :
        Finished(c) => co[c].outcome.kind = "return" /\ Truthy(co[c].outcome.value)

\* C9: when the final attempt of a generate call has failed, reset_client was
\* called before the call returned, whether the failure was a timeout or
\* another exception.
C9_FinalFailureResets ==
    \A c \in CoIds :
        (Finished(c) /\ co[c].attempt = max_retries - 1
                     /\ co[c].last_failure \in {"timeout", "error"})
            => co[c].resets = 1

\* C10: for each manager at most one initialization, re-test or
\* reset-with-reinitialization is in progress at any time, and a reset
\* reinitializes while it holds the manager's lock.
C10_MutationSerialized ==
    /\ Cardinality({c \in CoIds : co[c].pc \in GeminiInitAwaits}) <= 1
    /\ Cardinality({c \in CoIds : co[c].pc \in RagInitAwaits}) <= 1
    /\ \A c \in CoIds :
        /\ co[c].pc = "g_reset_await" => gemini_manager.lock = c
        /\ co[c].pc = "rag_reset_await" => rag_manager.lock = c

\* C11: when aquery fails with an error of the namespace class,
\* enhanced_query returns the retry-shortly message without calling
\* reset_rag, and the step leaves the RAG manager's handle, initialized flag
\* and last-health-check time as they were.
C11_NamespaceErrorNoReset ==
    /\ [](\A c \in CoIds :
            co[c].rag_error = NamespaceError
                => /\ co[c].rag_resets = 0
                   /\ co[c].rag_outcome = [kind |-> "return", value |-> RetryShortlyMsg])
    /\ [][\A c \in CoIds :
            (co[c].pc = "aquery_await" /\ co'[c].rag_error = NamespaceError)
                => rag_manager' = rag_manager]_vars

\* A query of an initialized index has failed with a namespace error and
\* enhanced_query has returned.
C11_Witness ==
    \E c \in CoIds :
        /\ co[c].rag_error = NamespaceError
        /\ co[c].rag_outcome.value = RetryShortlyMsg
        /\ rag_manager.initialized /\ rag_manager.rag = "LightRAG"

\* C12: when aquery fails with an error outside the namespace class,
\* enhanced_query calls reset_rag exactly once; it returns the service
\* message when the reset succeeds, and when the reset fails the failure is
\* raised to the caller of enhanced_query.
C12_OtherErrorResetsOrRaises ==
    \A c \in CoIds :
        (co[c].rag_error \in RagErrors \ {NamespaceError} /\ co[c].rag_outcome.kind # "none")
            => /\ co[c].rag_resets = 1
               /\ IF co[c].rag_reset_failed
                  THEN co[c].rag_outcome.kind = "raise"
                  ELSE co[c].rag_outcome =
                           [kind |-> "return", value |-> KnowledgeBaseUnavailableMsg]

\* C20: a generate call makes at most max_retries attempts, and before
\* attempt k+1 it has slept 2^j seconds after each failed attempt j <= k,
\* whether that attempt timed out or raised.
C20_BackoffBetweenAttempts ==
    \A c \in CoIds :
        co[c].pc = "gen_await"
            => /\ co[c].attempt < max_retries
               /\ co[c].sleeps = [j \in 1..co[c].attempt |-> 2 ^ (j - 1)]

\* C21: every enhanced_query call that has finished, by returning or by
\* raising (the handle could not be obtained), has run the cleanup of its
\* finally clause exactly once.
C21_CleanupOnEveryAttempt ==
    \A c \in CoIds : co[c].rag_outcome.kind # "none" => co[c].cleanups = 1

\* C24: the loop thread is never blocked on a manager's lock that a suspended
\* coroutine holds; blocked there, it can resume no coroutine, the holder
\* included, so the lock is never released and no pipeline completes.
C24_LoopNeverBlocks == ~loop_blocked

\* C25: while a coroutine is awaiting aquery on the handle, no step of
\* another coroutine resets the handle (reset_rag, lines 210-212) or tears
\* the shared state down (finalize_share_data in the finally clause).
C25_NoTeardownUnderPeer ==
    [][\A c, d \in CoIds :
         (c # d /\ co[d].pc = "aquery_await" /\ co'[d].pc = "aquery_await")
             => /\ rag_manager.initialized => rag_manager'.initialized
                /\ co'[c].cleanups <= co[c].cleanups]_vars

\* The messages enhanced_query returns in place of passages (lines 175-190).
RagFailureStrings ==
    {QueryTooLongMsg, RetryShortlyMsg, KnowledgeBaseUnavailableMsg, ServiceErrorMsg}

\* C27: when enhanced_query has produced no passages (timeout, namespace
\* conflict, reset after an error), the prompt carries the summary-only
\* instruction and not a documents section.
C27_FailureIsNoPassages ==
    \A c \in CoIds :
        co[c].rag_outcome.value \in RagFailureStrings => ~co[c].documents

\* =====================================================================
\* SpecLoop: FlaskAsyncManager, its FlaskAsyncLoop threads and the request
\* threads in run_async (event_loop_manager.py)
\* =====================================================================
\* What the operation handed to run_async does once the loop runs it.
Operations ==
    {[kind |-> "return", value |-> "answer"],
     [kind |-> "raise", value |-> "TimeoutError"],
     [kind |-> "raise", value |-> "ValueError"]}

LoopClosed(l) == loops[l] = "closed"

At(t, at) == submitter' = [submitter EXCEPT ![t].pc = at]

RaiseIn(t, type) ==
    submitter' = [submitter EXCEPT ![t].pc = "raised",
                                   ![t].outcome = [kind |-> "raise", value |-> type]]

\* run_async without the test of line 55.
RunAsyncEnter_Unchecked(t) ==
    /\ submitter[t].pc = "idle"
    /\ submitter' = [submitter EXCEPT ![t].shutdown_seen = async_manager.shutdown,
                                      ![t].pc = "check_loop"]
    /\ UNCHANGED <<now, engine_vars, mgr_vars, async_manager, loops, loop_threads>>

\* run_async, lines 55-56: the _shutdown test
RunAsyncEnter(t) ==
    /\ submitter[t].pc = "idle"
    /\ submitter' =
         [submitter EXCEPT
            ![t].shutdown_seen = async_manager.shutdown,
            ![t].pc = IF async_manager.shutdown THEN "raised" ELSE "check_loop",
            ![t].outcome = IF async_manager.shutdown
                           THEN [kind |-> "raise", value |-> "RuntimeError"] ELSE @]
    /\ UNCHANGED <<now, engine_vars, mgr_vars, async_manager, loops, loop_threads>>

\* line 58: self._loop is None or self._loop.is_closed()
CheckLoop(t) ==
    /\ submitter[t].pc = "check_loop"
    /\ LET restart == async_manager.loop = 0 \/ LoopClosed(async_manager.loop)
       IN  submitter' = [submitter EXCEPT
                            ![t].pc = IF restart THEN "start_thread" ELSE "submit",
                            ![t].restarted = restart]
    /\ UNCHANGED <<now, engine_vars, mgr_vars, async_manager, loops, loop_threads>>

\* _start_event_loop, lines 40-41: a new thread, started
StartThread(t) ==
    /\ submitter[t].pc = "start_thread"
    /\ Len(loop_threads) < MaxLoopThreads
    /\ loop_threads' = Append(loop_threads, [pc |-> "started", loop |-> 0])
    /\ async_manager' = [async_manager EXCEPT !.thread = Len(loop_threads) + 1]
    /\ At(t, "wait_loop")
    /\ UNCHANGED <<now, engine_vars, mgr_vars, loops>>

\* lines 45-51: the wait ends as soon as self._loop is not None, or with
\* RuntimeError after 10 s
WaitLoop(t) ==
    /\ submitter[t].pc = "wait_loop"
    /\ IF async_manager.loop # 0 THEN At(t, "submit") ELSE RaiseIn(t, "RuntimeError")
    /\ UNCHANGED <<now, engine_vars, mgr_vars, async_manager, loops, loop_threads>>

\* line 64: run_coroutine_threadsafe(coro, self._loop) raises RuntimeError
\* on a closed loop, and queues the operation on any other
Submit(t) ==
    /\ submitter[t].pc = "submit"
    /\ IF LoopClosed(async_manager.loop)
       THEN RaiseIn(t, "RuntimeError")
       ELSE submitter' = [submitter EXCEPT ![t].pc = "wait_result",
                                           ![t].loop = async_manager.loop]
    /\ UNCHANGED <<now, engine_vars, mgr_vars, async_manager, loops, loop_threads>>

\* lines 65-74: the loop runs the operation and the thread gets its outcome
Result(t) ==
    /\ submitter[t].pc = "wait_result"
    /\ loops[submitter[t].loop] = "running"
    /\ \E o \in Operations :
         LET r == RunAsync("running", o)
         IN  submitter' = [submitter EXCEPT
                              ![t].pc = IF r.kind = "raise" THEN "raised" ELSE "done",
                              ![t].outcome = r, ![t].op = o]
    /\ UNCHANGED <<now, engine_vars, mgr_vars, async_manager, loops, loop_threads>>

\* lines 65-70: the loop has stopped with the operation queued on it;
\* future.result gives up after 300 s
ResultTimeout(t) ==
    /\ submitter[t].pc = "wait_result"
    /\ loops[submitter[t].loop] # "running"
    /\ submitter' = [submitter EXCEPT ![t].pc = "raised",
                                      ![t].outcome = RunAsync("result_timeout", [kind |-> "none", value |-> ""])]
    /\ UNCHANGED <<now, engine_vars, mgr_vars, async_manager, loops, loop_threads>>

\* run_async is over; the request thread is free again
Leave(t) ==
    /\ submitter[t].pc \in {"done", "raised"}
    /\ submitter' = [submitter EXCEPT ![t] = SubmitterIdle]
    /\ UNCHANGED <<now, engine_vars, mgr_vars, async_manager, loops, loop_threads>>

\* run_loop, lines 29-33: the thread creates its loop, publishes it as
\* self._loop and runs it
RunLoop(i) ==
    /\ i \in DOMAIN loop_threads
    /\ loop_threads[i].pc = "started"
    /\ loops' = Append(loops, "running")
    /\ async_manager' = [async_manager EXCEPT !.loop = Len(loops) + 1]
    /\ loop_threads' = [loop_threads EXCEPT ![i] = [pc |-> "run_forever",
                                                     loop |-> Len(loops) + 1]]
    /\ UNCHANGED <<now, engine_vars, mgr_vars, submitter>>

\* lines 34-38: run_forever ends, by an error or by stop(); the finally
\* clause closes self._loop, whichever loop that is by now.  Closing the
\* thread's own loop works; closing a loop that another thread is running
\* raises RuntimeError and closes nothing.
LoopEnds(i) ==
    /\ i \in DOMAIN loop_threads
    /\ loop_threads[i].pc = "run_forever"
    /\ LET own == loop_threads[i].loop
           target == async_manager.loop
       IN  loops' = [l \in 1..Len(loops) |->
                        IF l = own THEN (IF target = own THEN "closed" ELSE "stopped")
                        ELSE IF l = target /\ loops[l] = "stopped" THEN "closed"
                        ELSE loops[l]]
    /\ loop_threads' = [loop_threads EXCEPT ![i].pc = "dead"]
    /\ UNCHANGED <<now, engine_vars, mgr_vars, async_manager, submitter>>

\* shutdown, lines 100-105: the flag, and stop() for a loop that is not closed
Shutdown ==
    /\ ~async_manager.shutdown
    /\ async_manager' = [async_manager EXCEPT !.shutdown = TRUE]
    /\ loops' = [l \in 1..Len(loops) |->
                    IF l = async_manager.loop /\ loops[l] = "running"
                    THEN "stopping" ELSE loops[l]]
    /\ UNCHANGED <<now, engine_vars, mgr_vars, loop_threads, submitter>>

LoopInit ==
    /\ now = 0
    /\ EngineIdle
    /\ gemini_manager = GeminiInit(TRUE)
    /\ rag_manager = RagInit
    /\ co = [c \in CoIds |-> CoIdle(c)]
    /\ loop_blocked = FALSE
    /\ RateIdle
    /\ LoopStarted

LoopNext ==
    \/ \E t \in Threads :
         \/ RunAsyncEnter(t) \/ CheckLoop(t) \/ StartThread(t) \/ WaitLoop(t)
         \/ Submit(t) \/ Result(t) \/ ResultTimeout(t) \/ Leave(t)
    \/ \E i \in 1..MaxLoopThreads : RunLoop(i) \/ LoopEnds(i)
    \/ Shutdown

SpecLoop == LoopInit /\ [][LoopNext]_vars

\* threading.Thread.is_alive() of the FlaskAsyncLoop threads, and the loops
\* that are inside run_forever.
LiveThreads == {i \in 1..Len(loop_threads) : loop_threads[i].pc # "dead"}
RunningLoops == {l \in 1..Len(loops) : loops[l] \in {"running", "stopping"}}

\* C2: there is never more than one FlaskAsyncLoop thread alive, nor more
\* than one loop running, and the operations of concurrent run_async calls
\* are queued on one and the same loop.
C2_SingleScheduler ==
    /\ Cardinality(LiveThreads) <= 1
    /\ Cardinality(RunningLoops) <= 1
    /\ \A t, u \in Threads :
         (submitter[t].pc = "wait_result" /\ submitter[u].pc = "wait_result")
             => submitter[t].loop = submitter[u].loop

\* C13: a run_async call that found the loop closed, with the manager not
\* shut down, restarts the scheduler and has its operation queued on the new
\* loop and run there: it does not fail before the operation is queued.
C13_RestartRunsOperation ==
    \A t \in Threads :
        (submitter[t].restarted /\ ~async_manager.shutdown)
            => /\ submitter[t].pc = "raised" => submitter[t].loop # 0
               /\ submitter[t].pc = "wait_result" => ~LoopClosed(submitter[t].loop)

\* C14: a run_async call that finds the manager shut down when it enters
\* raises at once, and its operation is queued on no loop.
C14_ShutdownRejects ==
    \A t \in Threads :
        (submitter[t].pc # "idle" /\ submitter[t].shutdown_seen)
            => /\ submitter[t].pc = "raised"
               /\ submitter[t].outcome = [kind |-> "raise", value |-> "RuntimeError"]
               /\ submitter[t].loop = 0
               /\ submitter[t].op.kind = "none"

\* A call made after shutdown() has raised.
C14_Witness ==
    \E t \in Threads :
        /\ async_manager.shutdown /\ submitter[t].shutdown_seen
        /\ submitter[t].pc = "raised"

\* C15: an exception raised by the operation leaves run_async as it is, the
\* same kind of exception, a TimeoutError raised by the operation included.
C15_ExceptionsUnchanged ==
    \A t \in Threads :
        submitter[t].op.kind = "raise" => submitter[t].outcome = submitter[t].op

\* C22: a run_async call that has restarted the scheduler leaves the wait of
\* _start_event_loop for line 64 only with a loop that is ready: self._loop
\* is then a loop that has not been closed.
C22_ProceedsWithReadyLoop ==
    [][\A t \in Threads :
         (submitter[t].pc = "wait_loop" /\ submitter'[t].pc = "submit")
             => async_manager.loop # 0 /\ ~LoopClosed(async_manager.loop)]_vars

\* C26: once shutdown() has set the flag, no step of a run_async call in
\* progress starts a FlaskAsyncLoop thread or queues an operation on a loop.
C26_NothingAfterShutdown ==
    [][async_manager.shutdown
         => /\ Len(loop_threads') = Len(loop_threads)
            /\ \A t \in Threads :
                 submitter'[t].loop # submitter[t].loop => submitter'[t].loop = 0]_vars

\* =====================================================================
\* Claims about query_with_optimizations
\* =====================================================================
Returns(t) == pc[t] = "done"

\* C1: query_with_optimizations returns a non-empty string and lets no
\* exception reach its caller, whatever fails in the pipeline, the scheduler
\* or the cache.
C1_AlwaysAnswers ==
    \A t \in Threads :
        /\ pc[t] # "raised"
        /\ Returns(t) => frame[t].ret # None /\ Truthy(frame[t].ret)

\* A call whose pipeline failed has returned the fallback text.
C1_Witness ==
    \E t \in Threads :
        /\ Returns(t) /\ frame[t].submitted /\ ~frame[t].stored
        /\ frame[t].ret \in FallbackStrings

\* The call of thread t asks what the call before it asked.
SameRequest(t) ==
    /\ Truthy(frame[t].processed_query)
    /\ frame[t].processed_query = prev.query /\ frame[t].mode = prev.mode

\* What a call served from the cache has done, and not done.
ServedFromCache(t) ==
    /\ frame[t].ret = prev.ret
    /\ ~frame[t].submitted /\ frame[t].misses = 0 /\ ~frame[t].stored
    /\ frame[t].hits = 1 /\ frame[t].ends = 1

\* C3 as stated: of two consecutive calls for one (query, mode), the second
\* returning within the TTL window of the first and no clear between them,
\* the second returns what the first returned and is served from the cache.
C3_RepeatIsCacheHit ==
    \A t \in Threads :
        (Returns(t) /\ SameRequest(t) /\ now < prev.at + cache_ttl)
            => ServedFromCache(t)

\* C3, amended: the same, when the first call stored its result in the cache.
C3_RepeatOfStoredIsCacheHit ==
    \A t \in Threads :
        (Returns(t) /\ SameRequest(t) /\ prev.stored /\ now < prev.at + cache_ttl)
            => ServedFromCache(t)

\* The second of two such calls has returned the first one's stored answer.
C3_Witness ==
    \E t \in Threads :
        /\ Returns(t) /\ SameRequest(t) /\ prev.stored /\ now < prev.at + cache_ttl
        /\ frame[t].hits = 1 /\ frame[t].ret = prev.ret /\ prev.ret \in ModelTexts

\* C4: an entry inserted at time T (here by the call before, at prev.at) is
\* returned by a lookup made strictly before T + cache_ttl; a lookup made at
\* or after T + cache_ttl is a miss, and removes the entry from both maps.
C4_TtlWindow ==
    \A t \in Threads :
        (prev.stored /\ SameRequest(t) /\ pc[t] \notin {"idle", "check", "cc_expiry"})
            => IF frame[t].checked_at < prev.at + cache_ttl
               THEN /\ pc[t] \in {"cc_read", "done"}
                    /\ Returns(t) => frame[t].ret = prev.ret /\ frame[t].hits = 1
               ELSE /\ pc[t] # "cc_read" /\ frame[t].hits = 0
                    /\ pc[t] \in {"cc_pop2", "exec"} => Key(t) \notin DOMAIN query_cache
                    /\ pc[t] = "exec" => Key(t) \notin DictKeys(cache_expiry)
                    /\ Returns(t) => frame[t].misses = 1

\* A lookup at T + cache_ttl or later has missed and purged the entry.
C4_Witness ==
    \E t \in Threads :
        /\ prev.stored /\ SameRequest(t) /\ pc[t] = "exec"
        /\ frame[t].checked_at >= prev.at + cache_ttl
        /\ Key(t) \notin DOMAIN query_cache

\* C5: a store into a full cache (the capacity+1st distinct entry, calls one
\* after another) removes the entry whose expiry is least, the earliest
\* inserted among equals, and leaves exactly CacheCapacity entries.
C5_EvictsOldest ==
    \A t \in Threads :
        LET d == cache_expiry
            k == frame[t].oldest_key
        IN  /\ pc[t] = "store_pop1" =>
                /\ k \in DictKeys(d)
                /\ \A i \in 1..Len(d) :
                     /\ DictGet(d, k, 0) <= d[i][2]
                     /\ d[i][2] = DictGet(d, k, 0) => i >= DictIndex(d, k)
            /\ (Returns(t) /\ frame[t].stored /\ k # None) =>
                /\ Cardinality(DOMAIN query_cache) = CacheCapacity
                /\ DictKeys(d) = DOMAIN query_cache
                /\ k \notin DOMAIN query_cache
                /\ Key(t) \in DOMAIN query_cache

\* A call has stored its result after evicting an entry.
C5_Witness ==
    \E t \in Threads :
        /\ Returns(t) /\ frame[t].stored /\ frame[t].oldest_key # None
        /\ Cardinality(DOMAIN query_cache) = CacheCapacity

\* C16: every call that has returned recorded one request start and one
\* request end, whether it was rejected, served from the cache, generated or
\* answered by the fallback.
C16_OneStartOneEnd ==
    \A t \in Threads :
        Returns(t) => frame[t].starts = 1 /\ frame[t].ends = 1

\* C17: no step of any call, however the calls interleave, lowers
\* total_requests or total_errors; only reset_metrics does.
C17_CountersMonotonic ==
    [][\/ ResetMetrics
       \/ /\ monitor'.total_requests >= monitor.total_requests
          /\ monitor'.total_errors >= monitor.total_errors]_vars

\* After a call that failed, another call has ended with success.
C17_Witness ==
    \E t \in Threads :
        /\ monitor.total_errors >= 1 /\ monitor.total_requests >= 2
        /\ Returns(t) /\ frame[t].ends = 1 /\ frame[t].ret \in ModelTexts

\* What the claims call a keyword match, and an empty or blank query.
Mentions(query, word) == Contains(Lower(query), word)
Blank(query) == \A i \in 1..Len(query) : IsSpace(SubSeq(query, i, i))
Rejected(query) == query \in NonText \/ Blank(query)

\* C18: a call that ended in the except clause returns the revenue text if
\* its query mentions "revenue", else the customer text if it mentions
\* "customer", else the project text if it mentions "project", else the
\* generic text, in whatever case the word is written; and the fallback
\* raises nothing.
C18_FallbackByKeyword ==
    \A t \in Threads :
        /\ pc[t] # "raised"
        /\ (Returns(t) /\ frame[t].failed)
             => LET q == frame[t].query
                IN  frame[t].ret =
                        CASE Mentions(q, "revenue") -> RevenueFallback
                          [] ~Mentions(q, "revenue") /\ Mentions(q, "customer") -> CustomerFallback
                          [] ~Mentions(q, "revenue") /\ ~Mentions(q, "customer")
                                /\ Mentions(q, "project") -> ProjectFallback
                          [] OTHER -> GenericFallback

\* A failed call whose query has the first keyword capitalised, and the
\* later ones too, got the revenue text.
C18_Witness ==
    \E t \in Threads :
        /\ Returns(t) /\ frame[t].failed
        /\ frame[t].query = "Revenue by CUSTOMER and project"
        /\ frame[t].ret = RevenueFallback

\* The rejection of C19: a rejected query gets the valid-question prompt,
\* nothing is raised, looked up, stored or submitted, and the step leaves
\* the cache as it was.
RejectedQuietly ==
    /\ [](\A t \in Threads :
            (pc[t] # "idle" /\ Rejected(frame[t].query))
                => /\ Returns(t) /\ frame[t].ret = ValidQuestionMsg
                   /\ ~frame[t].submitted /\ ~frame[t].stored /\ ~frame[t].failed
                   /\ frame[t].hits = 0 /\ frame[t].misses = 0)
    /\ [][\A t \in Threads :
            (pc[t] = "idle" /\ pc'[t] # "idle" /\ Rejected(frame'[t].query))
                => UNCHANGED <<query_cache, cache_expiry>>]_vars

\* C19 as stated: a rejected query is rejected quietly, and a query longer
\* than max_query_length enters the pipeline as its first max_query_length
\* characters followed by "...".
C19_RejectOrTruncate ==
    /\ RejectedQuietly
    /\ [](\A t \in Threads :
            (pc[t] # "idle" /\ ~Rejected(frame[t].query)
                            /\ Len(frame[t].query) > max_query_length)
                => frame[t].processed_query =
                       SubSeq(frame[t].query, 1, max_query_length) \o "...")

\* C19, amended: the length is that of the query without its surrounding
\* whitespace, and it is this stripped text that is cut and marked; a
\* stripped text within the limit is passed on whole.
C19_RejectOrTruncateStripped ==
    /\ RejectedQuietly
    /\ [](\A t \in Threads :
            (pc[t] # "idle" /\ ~Rejected(frame[t].query))
                => LET cleaned == Strip(frame[t].query)
                   IN  frame[t].processed_query =
                           IF Len(cleaned) > max_query_length
                           THEN SubSeq(cleaned, 1, max_query_length) \o "..."
                           ELSE cleaned)

\* An over-long query has been cut, marked and submitted to the pipeline.
C19_Witness ==
    \E t \in Threads :
        /\ frame[t].query = " " \o Repeat("a", max_query_length + 1)
        /\ Len(frame[t].processed_query) = max_query_length + 3
        /\ frame[t].submitted

\* C6: the cache never holds more than CacheCapacity entries, however the
\* stores of concurrent calls interleave.
C6_CapacityBound == Cardinality(DOMAIN query_cache) <= CacheCapacity

\* C7: no failure string of the model client manager and no fallback
\* response is ever a value of the cache.
C7_OnlyGenerationsStored ==
    \A k \in DOMAIN query_cache :
        query_cache[k] \notin GeminiFailureStrings \cup FallbackStrings

\* C28: a call served from the cache under the key the call before it stored
\* its result under is a call for the same (processed query, mode) pair.
C28_HitIsForSamePair ==
    \A t \in Threads :
        (Returns(t) /\ frame[t].hits = 1 /\ prev.stored
                    /\ Key(t) = CacheKey(prev.query, prev.mode))
            => frame[t].processed_query = prev.query /\ frame[t].mode = prev.mode

\* A thread, or the clear handler, is between the two statements that
\* update query_cache and cache_expiry for one key.
MidUpdate ==
    \/ \E t \in Threads : pc[t] \in {"cc_pop2", "store_pop2", "store_set2"}
    \/ admin = "clear_expiry"

\* C29: query_cache and cache_expiry have the same keys, at least whenever
\* no thread is between the two halves of an update of one key.
C29_SameKeySets ==
    ~MidUpdate => DOMAIN query_cache = DictKeys(cache_expiry)

\* C30: total_errors never exceeds total_requests.
C30_ErrorsWithinRequests == monitor.total_errors <= monitor.total_requests

====
